---- MODULE Spec2Model ----
(***************************************************************************)
(* Authentication and session lifecycle of peopleCentralBE (AuthService):  *)
(* register, login, refresh-token rotation with reuse detection, logout,   *)
(* requestReset and resetPassword, over the MySQL tables users, employee   *)
(* and user_sessions, and the bearer-token strategy of the protected       *)
(* routes.  Every handler is split at its awaited store queries: one       *)
(* action per query together with the synchronous code that follows it, so *)
(* that requests interleave exactly where the Node.js event loop lets      *)
(* them.                                                                   *)
(*                                                                         *)
(* Specifications: Spec, SeqSpec and MultiSpec run login, refresh and      *)
(* logout (overlapping, serial, serial with two users); AccountSpec and    *)
(* AccountSeqSpec run register, the password reset and login; GuardSpec    *)
(* adds the bearer-token strategy; FaultSpec lets any query reject;        *)
(* RegisterSpec runs overlapping register calls alone; BootSpec starts at  *)
(* the start of the process, with either secret set or not; PurgeSpec is   *)
(* Spec with the audit records.                                            *)
(***************************************************************************)
EXTENDS Integers, FiniteSets, Sequences, TLC

VARIABLES
    now,        \* wall clock in whole seconds (Date.now() = now * 1000)
    users,      \* rows of table users
    sessions,   \* rows of table user_sessions
    nextId,     \* AUTO_INCREMENT counter of user_sessions.id
    req,        \* request slot -> the handler invocation running in it
    run,        \* what kind of run this is; fixed by the initial state
    issued,     \* refresh tokens handed to clients so far
    last,       \* audited runs: the call whose response was delivered last, when
                \* it was a refresh or logout of a token guarding a live session
    burned,     \* audited runs: refresh tokens issued to a user before a reuse
                \* purge of that user
    resets,     \* password-reset tokens handed to clients so far
    redeemed,   \* audited runs: reset tokens a resetPassword call has redeemed
    proc,       \* the server process: its status and the environment variables
                \* that are set
    purged      \* audited runs: for each user the reuse purge has hit, the
                \* value of nextId at the latest purge

vars == <<now, users, sessions, nextId, req, run, issued, last, burned,
          resets, redeemed, proc, purged>>

-----------------------------------------------------------------------------
\* Bounds of the model.
MaxRows == 3        \* session rows ever inserted, one registered user
MaxMultiRows == 2   \* session rows ever inserted, two registered users
MaxTicks == 1       \* advances of the clock
MaxAccountRows == 1 \* session rows ever inserted, runs over the accounts
MaxResets == 2      \* password-reset tokens ever generated, serial runs
MaxOverlapResets == 1   \* password-reset tokens ever generated, overlapping runs
MaxGuardRows == 2   \* session rows ever inserted, runs with the bearer guard
MaxFaultRows == 2   \* session rows ever inserted, runs with a failing store
MaxFaultResets == 1 \* password-reset tokens ever generated, the same runs
MaxBootRows == 2    \* session rows ever inserted, runs from process start
MaxPurgeRows == 2   \* session rows ever inserted, overlapping audited runs

\* SQL NULL / JavaScript null.
NULL == "NULL"

\* The request slots: at most two handler invocations are in flight.
Reqs == {1, 2}

-----------------------------------------------------------------------------
\* Time.

NowMs == now * 1000

\* expiresIn: '7d' and '15m' of jwt.sign, in seconds.
RefreshExpiresIn == 7 * 24 * 60 * 60
AccessExpiresIn == 15 * 60

\* Mutant: a session is stored with a lifetime of one day.
SessionLifetimeMs_OneDay == (RefreshExpiresIn \div 7) * 1000

\* 7 * 24 * 60 * 60 * 1000 of the session inserts, in milliseconds.
SessionLifetimeMs == 7 * 24 * 60 * 60 * 1000

\* The clock advances by a second or by a whole refresh-token lifetime.
TickSteps == {1, RefreshExpiresIn}

-----------------------------------------------------------------------------
\* Tokens (jsonwebtoken, HS256): the string is a function of the payload, the
\* issue second, the expiry and the signing secret, and of nothing else.

AccessSecret == "JWT_SECRET"

\* Mutant: refresh tokens are signed and verified with the access secret.
RefreshSecret_SameAsAccess == "JWT_SECRET"

RefreshSecret == "JWT_REFRESH_SECRET"

NoClaims == [id |-> 0, email |-> "", role |-> "", unique_id |-> ""]

\* The absent token (undefined or the empty string) and a string that is no JWT.
NoToken == [claims |-> NoClaims, iat |-> 0, exp |-> 0, key |-> "none"]
GarbageToken == [claims |-> NoClaims, iat |-> 0, exp |-> 0, key |-> "garbage"]

JwtSign(claims, secret, expiresIn) ==
    [claims |-> claims,
     iat    |-> NowMs \div 1000,
     exp    |-> (NowMs \div 1000) + expiresIn,
     key    |-> secret]

\* Mutant: verification does not look at the expiry.
JwtVerifies_AnyAge(token, secret) == secret \in proc.env /\ token.key = secret

\* jwt.verify: the secret is set, the signature is of this secret and the token
\* has not expired.
JwtVerifies(token, secret) ==
    /\ secret \in proc.env
    /\ token.key = secret
    /\ (NowMs \div 1000) < token.exp

\* createHash('sha256').update(token).digest('hex')
hashToken(token) == [sha256 |-> token]

\* bcrypt.hash(data, 10) and bcrypt.compare(data, hash); the random salt is
\* left out, since the hash is only ever read by compare.
BcryptHash(data) == [bcrypt |-> data]
BcryptCompare(data, hash) == hash.bcrypt = data

-----------------------------------------------------------------------------
\* Store rows.

\* A nullable column holds the empty set (NULL) or the set of its one value;
\* reset_token and reset_token_expiry default to NULL.
UserRowOf(id, uid, email, role, password) ==
    [id |-> id, unique_id |-> uid, email |-> email, role |-> role,
     password |-> {BcryptHash(password)},
     reset_token |-> {}, reset_token_expiry |-> {}]

Emails == {"a@x.com", "b@x.com", "n@x.com", "nobody@x.com"}
Passwords == {"P1", "P2", "wrong"}

\* Raw user-agent header values and raw request.ip values; "" is the absent one.
UserAgentHeaders == {"ua1", ""}
IpValues == {"10.0.0.1"}

\* x || null
OrNull(x) == IF x = "" THEN NULL ELSE x

\* SQL '=' : a comparison with NULL is never true.
SqlEq(a, b) == a # NULL /\ b # NULL /\ a = b

\* The inserts name no is_revoked: a new row takes the column's default, which
\* the queries of refresh and logout read as "No".
IsRevokedDefault == "No"

\* INSERT INTO user_sessions (user_id, refresh_token_hash, user_agent,
\* ip_address, expires_at) VALUES (?, ?, ?, ?, ?)
SessionRowOf(uid, hash, ua, ip) ==
    [id |-> nextId, user_id |-> uid, refresh_token_hash |-> hash,
     user_agent |-> ua, ip_address |-> ip,
     expires_at |-> NowMs + SessionLifetimeMs, is_revoked |-> IsRevokedDefault]

\* SELECT * FROM user_sessions WHERE user_id = ? AND is_revoked = "No"
ActiveSessions(uid) ==
    {s \in sessions : s.user_id = uid /\ s.is_revoked = "No"}

\* The scan of refresh and logout: the sessions the presented token matches.
\* The loop stops at the first one in the order the store returned the rows.
Matching(token, rows) ==
    {s \in rows : BcryptCompare(hashToken(token), s.refresh_token_hash)}

-----------------------------------------------------------------------------
\* Request slots.

Idle ==
    [op |-> "none", pc |-> "idle", tok |-> NoToken, payload |-> NoClaims,
     ua |-> NULL, ip |-> NULL, matched |-> {}, affected |-> 0,
     accessToken |-> NoToken, refreshToken |-> NoToken, res |-> "",
     email |-> "", password |-> "", role |-> "", reset |-> {}, found |-> {},
     branch |-> ""]

\* Slots are interchangeable: a new call takes the lowest free one.
CanStart(r) ==
    /\ proc.status = "running"
    /\ req[r].pc = "idle"
    /\ \A q \in Reqs : q < r => req[q].pc # "idle"
    /\ run.serial => \A q \in Reqs : req[q].pc = "idle"

\* The run is bounded by the number of session rows ever inserted: a call that
\* is going to insert one starts only while an id is left for it.
Inserting == {"login_delete", "login_insert", "refresh_delete", "refresh_insert"}

HasRoom ==
    nextId + Cardinality({q \in Reqs : req[q].pc \in Inserting}) <= run.rows

NoCall == [op |-> "none", tok |-> NoToken, res |-> ""]

UserA == UserRowOf(1, "uid-a", "a@x.com", "User", "P1")
UserB == UserRowOf(2, "uid-b", "b@x.com", "Admin", "P1")

\* A user whose password column is NULL, which the schema allows.
UserN == [UserRowOf(2, "uid-n", "n@x.com", "User", "P1") EXCEPT !.password = {}]

\* A kind of run: requests one at a time or overlapping, with or without the
\* audit records, the session rows and reset tokens it may create, and whether
\* clients also present their access tokens where a refresh token is expected.
Kind(serial, audit, rows, resetTokens, access) ==
    [serial |-> serial, audit |-> audit, rows |-> rows,
     resets |-> resetTokens, access |-> access]

\* The state after start-up, over a store that holds the users `seed`.
InitWith(seed, kind) ==
    /\ now = 0
    /\ users = seed
    /\ sessions = {}
    /\ nextId = 1
    /\ req = [r \in Reqs |-> Idle]
    /\ run = kind
    /\ issued = {}
    /\ last = NoCall
    /\ burned = {}
    /\ resets = {}
    /\ redeemed = {}
    /\ proc = [status |-> "running", env |-> {AccessSecret, RefreshSecret}]
    /\ purged = {}

\* Requests overlap.
Init ==
    InitWith({UserA}, Kind(FALSE, FALSE, MaxRows, 0, FALSE))

\* The number of clock advances that led to the present time.
Ticks == (now \div RefreshExpiresIn) + (now % RefreshExpiresIn)

Tick ==
    /\ Ticks < MaxTicks
    /\ \E d \in TickSteps : now' = now + d
    /\ UNCHANGED <<users, sessions, nextId, req, run,
                   issued, last, burned,
                   resets, redeemed, proc, purged>>

-----------------------------------------------------------------------------
\* Outcomes of a handler.

Done(r, result) == [req[r] EXCEPT !.pc = "done", !.res = result]

Started(r, op, token) == [Idle EXCEPT !.op = op, !.tok = token]

\* The access token that login signs together with refresh token t.
AccessTokenOf(t) ==
    [t EXCEPT !.key = AccessSecret, !.exp = t.iat + AccessExpiresIn]

AccessTokens == {AccessTokenOf(t) : t \in issued}

\* The tokens a client can present: the refresh tokens handed out so far, no
\* token at all, a string that was never signed and, in the runs that say so,
\* the access tokens handed out.
Presentable ==
    issued \cup {NoToken, GarbageToken}
           \cup (IF run.access THEN AccessTokens ELSE {})

-----------------------------------------------------------------------------
\* AuthService.login

\* SELECT * FROM users WHERE email = ?
UsersByEmail(email) == {u \in users : u.email = email}

\* Mutant: a user without a password passes the checks.
CredentialsOk_NullPasses(rows, password) ==
    /\ rows # {}
    /\ \A u \in rows : \A h \in u.password : BcryptCompare(password, h)

\* !user || !user.password, then bcrypt.compare(password, user.password)
CredentialsOk(rows, password) ==
    /\ rows # {}
    /\ \A u \in rows :
          /\ u.password # {}
          /\ \A h \in u.password : BcryptCompare(password, h)

PayloadOf(user) ==
    [id |-> user.id, email |-> user.email, role |-> user.role,
     unique_id |-> user.unique_id]

\* DELETE FROM user_sessions WHERE user_id = ? AND user_agent = ?
DeleteForDevice(uid, ua) ==
    {s \in sessions : ~(s.user_id = uid /\ SqlEq(s.user_agent, ua))}

\* Which of the credential checks rejects these credentials, if any.
FailedCheck(rows, password) ==
    IF rows = {} THEN "no user"
    ELSE IF \E u \in rows : u.password = {} THEN "no password"
    ELSE IF \E u \in rows : \E h \in u.password : h.bcrypt # password
      THEN "mismatch"
    ELSE ""

\* jwt.sign with a secret that is undefined throws this error, which the catch
\* of login turns into its own exception.
SignThrows == "secretOrPrivateKey must have a value"

\* The user lookup, the credential checks and the signing of both tokens.
LoginSelectUser(r, email, password, uaHeader, ipRaw) ==
    /\ CanStart(r)
    /\ LET rows == UsersByEmail(email)
           start == [Started(r, "login", NoToken) EXCEPT
                        !.branch = FailedCheck(rows, password)]
       IN IF ~CredentialsOk(rows, password)
            THEN req' = [req EXCEPT ![r] =
                    [start EXCEPT !.pc = "done", !.res = "Invalid credentials"]]
          ELSE IF ~({AccessSecret, RefreshSecret} \subseteq proc.env)
            THEN req' = [req EXCEPT ![r] =
                    [start EXCEPT !.pc = "done", !.res = "Invalid credentials",
                                  !.branch = SignThrows]]
            ELSE LET user == CHOOSE u \in rows : TRUE
                     payload == PayloadOf(user)
                 IN /\ HasRoom
                    /\ req' = [req EXCEPT ![r] =
                        [start EXCEPT
                           !.pc = "login_delete",
                           !.ua = OrNull(OrNull(uaHeader)),
                           !.ip = OrNull(OrNull(ipRaw)),
                           !.payload = payload,
                           !.accessToken =
                               JwtSign(payload, AccessSecret, AccessExpiresIn),
                           !.refreshToken =
                               JwtSign(payload, RefreshSecret, RefreshExpiresIn)]]
    /\ UNCHANGED <<now, users, sessions, nextId, run,
                   issued, last, burned,
                   resets, redeemed, proc, purged>>

\* The delete of the device's existing session.
LoginDelete(r) ==
    /\ req[r].pc = "login_delete"
    /\ sessions' = DeleteForDevice(req[r].payload.unique_id, req[r].ua)
    /\ req' = [req EXCEPT ![r].pc = "login_insert"]
    /\ UNCHANGED <<now, users, nextId, run, issued, last, burned,
                   resets, redeemed, proc, purged>>

\* The insert of the new session, and the return of the token pair.
LoginInsert(r) ==
    /\ req[r].pc = "login_insert"
    /\ sessions' = sessions \cup
          {SessionRowOf(req[r].payload.unique_id,
                        BcryptHash(hashToken(req[r].refreshToken)),
                        req[r].ua, req[r].ip)}
    /\ nextId' = nextId + 1
    /\ req' = [req EXCEPT ![r] = Done(r, "ok")]
    /\ issued' = issued \cup {req[r].refreshToken}
    /\ UNCHANGED <<now, users, run, last, burned,
                   resets, redeemed, proc, purged>>

-----------------------------------------------------------------------------
\* AuthService.refresh

\* Mutant: the purge removes only the sessions that are not revoked.
DeleteAllForUser_ActiveOnly(uid) ==
    {s \in sessions : ~(s.user_id = uid /\ s.is_revoked = "No")}

\* Mutant: the purge empties the table.
DeleteAllForUser_Everyone(uid) == {s \in sessions : s.user_id # s.user_id}

\* DELETE FROM user_sessions WHERE user_id = ?
DeleteAllForUser(uid) == {s \in sessions : s.user_id # uid}

\* Mutant: the delete removes nothing.
DeleteById_Nothing(id) == {s \in sessions : s.id # id \/ s.id = id}

\* DELETE FROM user_sessions WHERE id = ?
DeleteById(id) == {s \in sessions : s.id # id}

\* The four claims refresh copies from the verified payload.
RotatedClaims(payload) ==
    [id |-> payload.id, email |-> payload.email, role |-> payload.role,
     unique_id |-> payload.unique_id]

\* The token checks, the query of the active sessions and the scan for a match.
RefreshLookup(r, token) ==
    /\ CanStart(r)
    /\ token \in Presentable
    /\ LET start == Started(r, "refresh", token)
       IN IF token = NoToken
            THEN req' = [req EXCEPT ![r] =
                    [start EXCEPT !.pc = "done", !.res = "Refresh token required"]]
          ELSE IF ~JwtVerifies(token, RefreshSecret)
            THEN req' = [req EXCEPT ![r] =
                    [start EXCEPT !.pc = "done", !.res = "Invalid refresh token"]]
          ELSE LET found == Matching(token, ActiveSessions(token.claims.unique_id))
               IN IF found = {}
                    THEN req' = [req EXCEPT ![r] =
                            [start EXCEPT !.pc = "refresh_purge",
                                          !.payload = token.claims]]
                    ELSE \E s \in found :
                           /\ HasRoom
                           /\ req' = [req EXCEPT ![r] =
                              [start EXCEPT !.pc = "refresh_delete",
                                            !.payload = token.claims,
                                            !.matched = {s}]]
    /\ UNCHANGED <<now, users, sessions, nextId, run,
                   issued, last, burned,
                   resets, redeemed, proc, purged>>

\* No session matched: delete every session of the user, then throw.
RefreshPurge(r) ==
    /\ req[r].pc = "refresh_purge"
    /\ sessions' = DeleteAllForUser(req[r].payload.unique_id)
    /\ req' = [req EXCEPT ![r] = Done(r, "Refresh token reuse detected")]
    /\ burned' = IF run.audit
                   THEN burned \cup {t \in issued : t.claims.unique_id =
                                                    req[r].payload.unique_id}
                   ELSE burned
    /\ purged' = IF run.audit
                   THEN {m \in purged : m.user_id # req[r].payload.unique_id}
                        \cup {[user_id |-> req[r].payload.unique_id,
                                below |-> nextId]}
                   ELSE purged
    /\ UNCHANGED <<now, users, nextId, run, issued, last,
                   resets, redeemed, proc>>

\* A session matched: delete it, then sign the new refresh token.
RefreshDelete(r) ==
    /\ req[r].pc = "refresh_delete"
    /\ LET id == (CHOOSE s \in req[r].matched : TRUE).id
       IN /\ sessions' = DeleteById(id)
          /\ req' = [req EXCEPT
                ![r].pc = "refresh_insert",
                ![r].affected = Cardinality({s \in sessions : s.id = id}),
                ![r].refreshToken =
                    JwtSign(RotatedClaims(req[r].payload), RefreshSecret,
                            RefreshExpiresIn)]
    /\ UNCHANGED <<now, users, nextId, run, issued, last, burned,
                   resets, redeemed, proc, purged>>

\* Insert the rotated session, sign the access token, return the pair.
RefreshInsert(r) ==
    /\ req[r].pc = "refresh_insert"
    /\ LET old == CHOOSE s \in req[r].matched : TRUE
       IN sessions' = sessions \cup
             {SessionRowOf(req[r].payload.unique_id,
                           BcryptHash(hashToken(req[r].refreshToken)),
                           old.user_agent, old.ip_address)}
    /\ nextId' = nextId + 1
    /\ req' = [req EXCEPT ![r] =
          [Done(r, "ok") EXCEPT
             !.accessToken = JwtSign(RotatedClaims(req[r].payload), AccessSecret,
                                     AccessExpiresIn)]]
    /\ issued' = issued \cup {req[r].refreshToken}
    /\ UNCHANGED <<now, users, run, last, burned,
                   resets, redeemed, proc, purged>>

-----------------------------------------------------------------------------
\* AuthService.logout

\* Mutant: the update revokes every session of the user who owns the row.
RevokeById_WholeUser(id) ==
    {IF \E m \in sessions : m.id = id /\ m.user_id = s.user_id
       THEN [s EXCEPT !.is_revoked = "Yes"] ELSE s : s \in sessions}

\* UPDATE user_sessions SET is_revoked = "Yes" WHERE id = ?
RevokeById(id) ==
    {IF s.id = id THEN [s EXCEPT !.is_revoked = "Yes"] ELSE s : s \in sessions}

\* The token checks, the query of the active sessions and the scan for a match.
LogoutLookup(r, token) ==
    /\ CanStart(r)
    /\ token \in Presentable
    /\ LET start == Started(r, "logout", token)
       IN IF token = NoToken
            THEN req' = [req EXCEPT ![r] =
                    [start EXCEPT !.pc = "done", !.res = "Refresh token required"]]
          ELSE IF ~JwtVerifies(token, RefreshSecret)
            THEN req' = [req EXCEPT ![r] =
                    [start EXCEPT !.pc = "done", !.res = "Invalid token"]]
          ELSE LET found == Matching(token, ActiveSessions(token.claims.unique_id))
               IN IF found = {}
                    THEN req' = [req EXCEPT ![r] =
                            [start EXCEPT !.pc = "done", !.res = "Invalid token",
                                          !.payload = token.claims]]
                    ELSE \E s \in found :
                           req' = [req EXCEPT ![r] =
                              [start EXCEPT !.pc = "logout_update",
                                            !.payload = token.claims,
                                            !.matched = {s}]]
    /\ UNCHANGED <<now, users, sessions, nextId, run,
                   issued, last, burned,
                   resets, redeemed, proc, purged>>

\* Mark the matched session revoked and report success.
LogoutUpdate(r) ==
    /\ req[r].pc = "logout_update"
    /\ sessions' = RevokeById((CHOOSE s \in req[r].matched : TRUE).id)
    /\ req' = [req EXCEPT ![r] = Done(r, "ok")]
    /\ UNCHANGED <<now, users, nextId, run, issued, last, burned,
                   resets, redeemed, proc, purged>>

-----------------------------------------------------------------------------
\* AuthService.register

\* Table employee, which AuthService only reads: the emails on the roster.
Employees == {"a@x.com", "b@x.com", "n@x.com"}

\* Mutant: every email is on the roster.
EmployeesByEmail_Anyone(email) == {email}

\* SELECT id FROM employee WHERE email = ?
EmployeesByEmail(email) == {e \in Employees : e = email}

Roles == {"User", "Admin", "Superadmin"}

\* The request body: "" is the empty string, Undefined the missing field.
Undefined == "undefined"
RegisterEmails == {"b@x.com", "a@x.com", "nobody@x.com", ""}
RegisterPasswords == {"P1", ""}
RoleInputs == {Undefined, "Admin", "Intern"}

\* role: string = 'User'
DefaultRole(role) == IF role = Undefined THEN "User" ELSE role

\* unique_id is randomBytes(16).toString('hex'): a value never seen before.
FreshUids == <<"uid-r1", "uid-r2", "uid-r3", "uid-r4", "uid-r5">>
RandomUid(n) == FreshUids[n]

\* What the catch of register makes of every exception thrown inside the try.
RegistrationFailed(slot, thrown) ==
    [slot EXCEPT !.pc = "done", !.res = "Registration failed", !.branch = thrown]

\* The checks of the arguments and the lookup of the employee.
RegisterSelectEmployee(r, email, password, roleInput) ==
    /\ CanStart(r)
    /\ LET role == DefaultRole(roleInput)
           start == [Idle EXCEPT !.op = "register", !.email = email,
                                 !.password = password, !.role = role]
           early == [Idle EXCEPT !.op = "register", !.pc = "done",
                                 !.email = email]
       IN IF email = "" \/ password = "" \/ role = ""
            THEN req' = [req EXCEPT ![r] =
                    [early EXCEPT !.res = "Email and password are required"]]
          ELSE IF role \notin Roles
            THEN req' = [req EXCEPT ![r] =
                    [early EXCEPT !.res = "Invalid role"]]
          ELSE IF EmployeesByEmail(email) = {}
            THEN req' = [req EXCEPT ![r] =
                    RegistrationFailed(start, "No employee found with this email")]
          ELSE req' = [req EXCEPT ![r] =
                    [start EXCEPT !.pc = "register_select_user"]]
    /\ UNCHANGED <<now, users, sessions, nextId, run, issued, last, burned,
                   resets, redeemed, proc, purged>>

\* The lookup of a user with this email.
RegisterSelectUser(r) ==
    /\ req[r].pc = "register_select_user"
    /\ req' = [req EXCEPT ![r] =
          IF UsersByEmail(req[r].email) # {}
            THEN RegistrationFailed(req[r], "Email already exists")
            ELSE [req[r] EXCEPT !.pc = "register_insert"]]
    /\ UNCHANGED <<now, users, sessions, nextId, run, issued, last, burned,
                   resets, redeemed, proc, purged>>

\* Mutant: the insert goes through whatever rows the table holds.
RegisterInsert_NoUniqueKey(r) ==
    /\ req[r].pc = "register_insert"
    /\ users' = users \cup
          {UserRowOf(1 + Cardinality(users), RandomUid(1 + Cardinality(users)),
                     req[r].email, req[r].role, req[r].password)}
    /\ req' = [req EXCEPT ![r] = Done(r, "ok")]
    /\ UNCHANGED <<now, sessions, nextId, run, issued, last, burned,
                   resets, redeemed, proc, purged>>

\* The insert of the user row; users.email is UNIQUE.
RegisterInsert(r) ==
    /\ req[r].pc = "register_insert"
    /\ IF UsersByEmail(req[r].email) # {}
         THEN /\ req' = [req EXCEPT ![r] =
                    RegistrationFailed(req[r], "ER_DUP_ENTRY")]
              /\ users' = users
         ELSE LET id == 1 + Cardinality(users)
              IN /\ users' = users \cup
                       {UserRowOf(id, RandomUid(id), req[r].email, req[r].role,
                                  req[r].password)}
                 /\ req' = [req EXCEPT ![r] = Done(r, "ok")]
    /\ UNCHANGED <<now, sessions, nextId, run, issued, last, burned,
                   resets, redeemed, proc, purged>>

-----------------------------------------------------------------------------
\* AuthService.requestReset and AuthService.resetPassword

\* 1000 * 60 * 15 milliseconds.
ResetLifetimeMs == 1000 * 60 * 15

\* randomBytes(32): a token no call has produced before.  The label `at` is
\* the second it was generated in; the string itself does not carry it.
RandomResetToken == [hex |-> Cardinality(resets) + 1, at |-> NowMs \div 1000]

\* A reset token that requestReset never produced.
BogusResetToken == [hex |-> 0, at |-> 0]

NewPasswords == {"P2"}

\* Mutant: an email that matches no row updates every row.
SetResetToken_OrEveryone(email, token, expiry) ==
    {IF u.email = email \/ (\A v \in users : v.email # email)
       THEN [u EXCEPT !.reset_token = {token}, !.reset_token_expiry = {expiry}]
       ELSE u : u \in users}

\* UPDATE users SET reset_token = ?, reset_token_expiry = ? WHERE email = ?
SetResetToken(email, token, expiry) ==
    {IF u.email = email
       THEN [u EXCEPT !.reset_token = {token}, !.reset_token_expiry = {expiry}]
       ELSE u : u \in users}

\* The one query of requestReset; the token is returned whatever it updated.
RequestReset(r, email) ==
    /\ CanStart(r)
    /\ Cardinality(resets) < run.resets
    /\ LET token == RandomResetToken
           expiry == (NowMs + ResetLifetimeMs) \div 1000
       IN /\ users' = SetResetToken(email, token, expiry)
          /\ resets' = resets \cup {token}
          /\ req' = [req EXCEPT ![r] =
                [Idle EXCEPT !.op = "requestReset", !.pc = "done", !.res = "ok",
                             !.email = email, !.reset = {token}]]
    /\ UNCHANGED <<now, sessions, nextId, run, issued, last, burned, redeemed, proc, purged>>

\* Mutant: the lookup does not look at the expiry.
UsersByResetToken_AnyAge(token) == {u \in users : u.reset_token = {token}}

\* SELECT * FROM users WHERE reset_token = ? AND reset_token_expiry > NOW()
UsersByResetToken(token) ==
    {u \in users : /\ u.reset_token = {token}
                   /\ \E e \in u.reset_token_expiry : e > NowMs \div 1000}

\* Mutant: the update clears the token and leaves its expiry.
SetPassword_TokenOnly(id, hashed) ==
    {IF u.id = id
       THEN [u EXCEPT !.password = {hashed}, !.reset_token = {}]
       ELSE u : u \in users}

\* Mutant: the update clears the token and its expiry and keeps the password.
SetPassword_KeepsPassword(id, hashed) ==
    {IF u.id = id
       THEN [u EXCEPT !.reset_token = {}, !.reset_token_expiry = {}]
       ELSE u : u \in users}

\* UPDATE users SET password = ?, reset_token = NULL,
\* reset_token_expiry = NULL WHERE id = ?
SetPassword(id, hashed) ==
    {IF u.id = id
       THEN [u EXCEPT !.password = {hashed}, !.reset_token = {},
                      !.reset_token_expiry = {}]
       ELSE u : u \in users}

\* The lookup of the user who holds the token.
ResetSelect(r, token, newPassword) ==
    /\ CanStart(r)
    /\ token \in resets \cup {BogusResetToken}
    /\ LET rows == UsersByResetToken(token)
           start == [Idle EXCEPT !.op = "resetPassword", !.reset = {token},
                                 !.password = newPassword,
                                 !.branch = IF token \in redeemed
                                              THEN "redeemed" ELSE ""]
       IN req' = [req EXCEPT ![r] =
             IF rows = {}
               THEN [start EXCEPT !.pc = "done",
                                  !.res = "Invalid or expired token"]
               ELSE [start EXCEPT !.pc = "reset_update",
                                  !.found = {CHOOSE u \in rows : TRUE}]]
    /\ UNCHANGED <<now, users, sessions, nextId, run, issued, last, burned,
                   resets, redeemed, proc, purged>>

\* The update of the password, which clears the token and its expiry.
ResetUpdate(r) ==
    /\ req[r].pc = "reset_update"
    /\ users' = SetPassword((CHOOSE u \in req[r].found : TRUE).id,
                            BcryptHash(req[r].password))
    /\ req' = [req EXCEPT ![r] = Done(r, "ok")]
    /\ redeemed' = IF run.audit THEN redeemed \cup req[r].reset ELSE redeemed
    /\ UNCHANGED <<now, sessions, nextId, run, issued, last, burned, resets, proc, purged>>

-----------------------------------------------------------------------------
\* The response reaches the client and the slot is free again.

Summary(r) ==
    IF req[r].matched # {}
      THEN [op |-> req[r].op, tok |-> req[r].tok, res |-> req[r].res]
      ELSE NoCall

Respond(r) ==
    /\ req[r].pc = "done"
    /\ req' = [req EXCEPT ![r] = Idle]
    /\ last' = IF run.audit THEN Summary(r) ELSE last
    /\ UNCHANGED <<now, users, sessions, nextId, run,
                   issued, burned,
                   resets, redeemed, proc, purged>>

-----------------------------------------------------------------------------

Next ==
    \/ Tick
    \/ \E r \in Reqs, e \in Emails, p \in Passwords, ua \in UserAgentHeaders,
          ip \in IpValues : LoginSelectUser(r, e, p, ua, ip)
    \/ \E r \in Reqs : LoginDelete(r)
    \/ \E r \in Reqs : LoginInsert(r)
    \/ \E r \in Reqs, t \in Presentable : RefreshLookup(r, t)
    \/ \E r \in Reqs : RefreshPurge(r)
    \/ \E r \in Reqs : RefreshDelete(r)
    \/ \E r \in Reqs : RefreshInsert(r)
    \/ \E r \in Reqs, t \in Presentable : LogoutLookup(r, t)
    \/ \E r \in Reqs : LogoutUpdate(r)
    \/ \E r \in Reqs : Respond(r)

\* Requests overlap.
Spec == Init /\ [][Next]_vars

\* One request at a time: a call starts only when the one before has returned.
SeqInit ==
    InitWith({UserA}, Kind(TRUE, TRUE, MaxRows, 0, FALSE))

SeqSpec == SeqInit /\ [][Next]_vars

\* One request at a time, two registered users.
MultiInit ==
    InitWith({UserA, UserB}, Kind(TRUE, FALSE, MaxMultiRows, 0, FALSE))

MultiSpec == MultiInit /\ [][Next]_vars

-----------------------------------------------------------------------------
\* Runs over the accounts: register, requestReset, resetPassword and login.

\* The clock advances by a second or by a whole reset-token lifetime.
AccountTickSteps == {1, ResetLifetimeMs \div 1000}

AccountTicks ==
    (now \div (ResetLifetimeMs \div 1000)) + (now % (ResetLifetimeMs \div 1000))

AccountTick ==
    /\ AccountTicks < MaxTicks
    /\ \E d \in AccountTickSteps : now' = now + d
    /\ UNCHANGED <<users, sessions, nextId, req, run, issued, last, burned,
                   resets, redeemed, proc, purged>>

AccountNext ==
    \/ AccountTick
    \/ \E r \in Reqs, e \in RegisterEmails, p \in RegisterPasswords,
          ro \in RoleInputs : RegisterSelectEmployee(r, e, p, ro)
    \/ \E r \in Reqs : RegisterSelectUser(r)
    \/ \E r \in Reqs : RegisterInsert(r)
    \/ \E r \in Reqs, e \in Emails : RequestReset(r, e)
    \/ \E r \in Reqs, t \in resets \cup {BogusResetToken}, p \in NewPasswords :
          ResetSelect(r, t, p)
    \/ \E r \in Reqs : ResetUpdate(r)
    \/ \E r \in Reqs, e \in Emails, p \in Passwords, ua \in UserAgentHeaders,
          ip \in IpValues : LoginSelectUser(r, e, p, ua, ip)
    \/ \E r \in Reqs : LoginDelete(r)
    \/ \E r \in Reqs : LoginInsert(r)
    \/ \E r \in Reqs : Respond(r)

\* Overlapping register calls alone.
RegisterNext ==
    \/ \E r \in Reqs, e \in RegisterEmails, p \in RegisterPasswords,
          ro \in RoleInputs : RegisterSelectEmployee(r, e, p, ro)
    \/ \E r \in Reqs : RegisterSelectUser(r)
    \/ \E r \in Reqs : RegisterInsert(r)
    \/ \E r \in Reqs : Respond(r)

RegisterInit == InitWith({UserA}, Kind(FALSE, FALSE, 0, 0, FALSE))

RegisterSpec == RegisterInit /\ [][RegisterNext]_vars

\* Requests overlap.
AccountInit ==
    InitWith({UserA, UserN},
             Kind(FALSE, FALSE, MaxAccountRows, MaxOverlapResets, FALSE))

AccountSpec == AccountInit /\ [][AccountNext]_vars

\* One request at a time.
AccountSeqInit ==
    InitWith({UserA, UserN}, Kind(TRUE, TRUE, MaxAccountRows, MaxResets, FALSE))

AccountSeqSpec == AccountSeqInit /\ [][AccountNext]_vars

-----------------------------------------------------------------------------
\* Runs with the bearer-token guard of the protected routes (JwtStrategy), in
\* which clients present access tokens and refresh tokens alike.

\* secretOrKey: process.env.JWT_SECRET
StrategySecret == AccessSecret

\* A request to a protected route with `token` as its bearer token;
\* ignoreExpiration is false.
BearerGuard(r, token) ==
    /\ CanStart(r)
    /\ token \in Presentable
    /\ req' = [req EXCEPT ![r] =
          [Started(r, "protected", token) EXCEPT
             !.pc = "done",
             !.res = IF token # NoToken /\ JwtVerifies(token, StrategySecret)
                       THEN "ok" ELSE "Unauthorized"]]
    /\ UNCHANGED <<now, users, sessions, nextId, run, issued, last, burned,
                   resets, redeemed, proc, purged>>

GuardNext ==
    \/ Next
    \/ \E r \in Reqs, t \in Presentable : BearerGuard(r, t)

GuardInit == InitWith({UserA}, Kind(TRUE, FALSE, MaxGuardRows, 0, TRUE))

GuardSpec == GuardInit /\ [][GuardNext]_vars

-----------------------------------------------------------------------------
\* Runs from the start of the process, with any of the two secrets set or not.

\* JwtStrategy's constructor, run when the application is built: it throws
\* when JWT_SECRET is not defined, which ends the process.
Startup ==
    /\ proc.status = "starting"
    /\ proc' = [proc EXCEPT !.status = IF AccessSecret \in proc.env
                                         THEN "running" ELSE "failed"]
    /\ UNCHANGED <<now, users, sessions, nextId, req, run, issued, last,
                   burned, resets, redeemed, purged>>

BootNext ==
    \/ Startup
    \/ Next

BootInit ==
    /\ now = 0
    /\ users = {UserA}
    /\ sessions = {}
    /\ nextId = 1
    /\ req = [r \in Reqs |-> Idle]
    /\ run = Kind(TRUE, FALSE, MaxBootRows, 0, FALSE)
    /\ issued = {}
    /\ last = NoCall
    /\ burned = {}
    /\ resets = {}
    /\ redeemed = {}
    /\ proc \in [status : {"starting"}, env : SUBSET {AccessSecret, RefreshSecret}]
    /\ purged = {}

BootSpec == BootInit /\ [][BootNext]_vars

\* Overlapping requests with the audit records.
PurgeInit == InitWith({UserA}, Kind(FALSE, TRUE, MaxPurgeRows, 0, FALSE))

PurgeSpec == PurgeInit /\ [][Next]_vars

-----------------------------------------------------------------------------
\* Runs in which the store may be out of reach: any query may reject.

\* The message of the 500 response the framework sends for an exception that is
\* no HttpException.
ServerError == "Internal server error"

\* What the client gets when a query of the handler rejects: register and login
\* run their queries inside a try whose catch throws the handler's own
\* exception; the other handlers let the rejection through.
QueryFailed(op) ==
    CASE op = "register" -> "Registration failed"
      [] op = "login" -> "Invalid credentials"
      [] OTHER -> ServerError

Handlers ==
    {"register", "login", "refresh", "logout", "requestReset", "resetPassword"}

\* The positions of a handler that has a query still to run.
BeforeQuery ==
    {"login_delete", "login_insert", "register_select_user", "register_insert",
     "refresh_purge", "refresh_delete", "refresh_insert", "logout_update",
     "reset_update"}

\* A call whose first query rejects; refresh and logout reach their first
\* query only with a token that verifies.
FirstQueryFails(r, op, token) ==
    /\ CanStart(r)
    /\ token \in Presentable
    /\ IF op \in {"refresh", "logout"}
         THEN token # NoToken /\ JwtVerifies(token, RefreshSecret)
         ELSE token = NoToken
    /\ req' = [req EXCEPT ![r] =
          [Started(r, op, token) EXCEPT !.pc = "done", !.res = QueryFailed(op),
                                        !.branch = "query rejected"]]
    /\ UNCHANGED <<now, users, sessions, nextId, run, issued, last, burned,
                   resets, redeemed, proc, purged>>

\* A later query of a running call rejects.
LaterQueryFails(r) ==
    /\ req[r].pc \in BeforeQuery
    /\ req' = [req EXCEPT ![r] =
          [req[r] EXCEPT !.pc = "done", !.res = QueryFailed(req[r].op),
                         !.branch = "query rejected"]]
    /\ UNCHANGED <<now, users, sessions, nextId, run, issued, last, burned,
                   resets, redeemed, proc, purged>>

FaultNext ==
    \/ \E r \in Reqs, op \in Handlers, t \in Presentable :
          FirstQueryFails(r, op, t)
    \/ \E r \in Reqs : LaterQueryFails(r)
    \/ \E r \in Reqs, e \in RegisterEmails, p \in RegisterPasswords,
          ro \in RoleInputs : RegisterSelectEmployee(r, e, p, ro)
    \/ \E r \in Reqs : RegisterSelectUser(r)
    \/ \E r \in Reqs : RegisterInsert(r)
    \/ \E r \in Reqs, e \in Emails : RequestReset(r, e)
    \/ \E r \in Reqs, t \in resets \cup {BogusResetToken}, p \in NewPasswords :
          ResetSelect(r, t, p)
    \/ \E r \in Reqs : ResetUpdate(r)
    \/ \E r \in Reqs, e \in Emails, p \in Passwords, ua \in UserAgentHeaders,
          ip \in IpValues : LoginSelectUser(r, e, p, ua, ip)
    \/ \E r \in Reqs : LoginDelete(r)
    \/ \E r \in Reqs : LoginInsert(r)
    \/ \E r \in Reqs, t \in Presentable : RefreshLookup(r, t)
    \/ \E r \in Reqs : RefreshPurge(r)
    \/ \E r \in Reqs : RefreshDelete(r)
    \/ \E r \in Reqs : RefreshInsert(r)
    \/ \E r \in Reqs, t \in Presentable : LogoutLookup(r, t)
    \/ \E r \in Reqs : LogoutUpdate(r)
    \/ \E r \in Reqs : Respond(r)

FaultInit ==
    InitWith({UserA}, Kind(TRUE, FALSE, MaxFaultRows, MaxFaultResets, FALSE))

FaultSpec == FaultInit /\ [][FaultNext]_vars

-----------------------------------------------------------------------------
\* The HTTP status of a response: 201 for the value a POST handler returns, the
\* status of the exception class for the message a handler throws
\* (BadRequestException 400, UnauthorizedException 401), and 500 for an
\* exception that is no HttpException.
StatusOf(res) ==
    CASE res = "ok" -> 201
      [] res \in {"Email and password are required", "Invalid role",
                  "Registration failed", "Invalid or expired token"} -> 400
      [] res \in {"Invalid credentials", "Refresh token required",
                  "Invalid refresh token", "Refresh token reuse detected",
                  "Invalid token", "Unauthorized"} -> 401
      [] OTHER -> 500

-----------------------------------------------------------------------------
\* Vocabulary of the properties.

ReuseDetected == "Refresh token reuse detected"

Returned(r, op) == req[r].pc = "done" /\ req[r].op = op

Succeeded(r, op) == Returned(r, op) /\ req[r].res = "ok"

SessionsOf(uid) == {s \in sessions : s.user_id = uid}

\* What the lookup of refresh decides for a token: it verifies and an active
\* session of its subject matches it.
Refreshable(token) ==
    /\ JwtVerifies(token, RefreshSecret)
    /\ Matching(token, ActiveSessions(token.claims.unique_id)) # {}

\* Request q runs a query on user_sessions in this step.
QueriesSessions(q) ==
    \/ /\ req[q].pc \in {"idle", "done"}
       /\ req'[q].op \in {"refresh", "logout"}
       /\ req'[q].payload # NoClaims
    \/ /\ req[q].pc \in Inserting \cup {"refresh_purge", "logout_update"}
       /\ req'[q].pc # req[q].pc

-----------------------------------------------------------------------------
\* C1: in a serial run, when refresh(T) is called twice in a row for a token T
\* guarding a live session (and T still verifies at the second call), the first
\* call returns a token pair and the second fails with 'Refresh token reuse
\* detected', leaving the user without any session.
C1_SecondRefreshIsReuse ==
    \A r \in Reqs :
        ( /\ Returned(r, "refresh")
          /\ req[r].res # "Invalid refresh token"
          /\ last.op = "refresh"
          /\ last.tok = req[r].tok )
        => /\ last.res = "ok"
           /\ req[r].res = ReuseDetected
           /\ SessionsOf(req[r].tok.claims.unique_id) = {}

\* C2: a refresh that returns a token pair returns a refresh token different
\* from the one presented.
C2_RotationReturnsNewToken ==
    \A r \in Reqs :
        Succeeded(r, "refresh") => req[r].refreshToken # req[r].tok

\* C3: of the refresh calls that matched the same session row at most one
\* returns a token pair, and a call whose delete found the row already gone
\* does not return one.
C3_AtMostOneRotationPerSession ==
    /\ \A r1, r2 \in Reqs :
          ( /\ r1 # r2
            /\ Succeeded(r1, "refresh")
            /\ Succeeded(r2, "refresh") )
          => req[r1].matched # req[r2].matched
    /\ \A r \in Reqs :
          (Succeeded(r, "refresh") /\ req[r].matched # {}) => req[r].affected = 1

\* C4: a refresh whose token verified and matched no active session ends with
\* 'Refresh token reuse detected', and the step that produces this error is the
\* one that has removed every session row of the token's subject.
C4_ReuseErrorOnlyAfterPurge ==
    [][ \A r \in Reqs :
          /\ ( /\ req'[r].pc = "done"
               /\ req'[r].res = ReuseDetected
               /\ req[r].pc # "done" )
             => /\ req[r].op = "refresh"
                /\ req[r].matched = {}
                /\ \A s \in sessions' : s.user_id # req[r].payload.unique_id
          /\ ( /\ req'[r].pc = "done"
               /\ req[r].pc # "done"
               /\ req'[r].op = "refresh"
               /\ req'[r].payload # NoClaims
               /\ req'[r].matched = {} )
             => req'[r].res = ReuseDetected
      ]_vars

\* A refresh has failed with the reuse error for a user who had been issued a
\* refresh token.
C4_Witness ==
    \E r \in Reqs :
        /\ Returned(r, "refresh")
        /\ req[r].res = ReuseDetected
        /\ req[r].tok \in issued
        /\ SessionsOf(req[r].payload.unique_id) = {}

\* C5: in a serial run, once reuse detection has fired for a user, no refresh
\* token issued to that user before that moment yields a token pair again.
C5_BurnedTokensStayRejected ==
    \A r \in Reqs :
        Succeeded(r, "refresh") => req[r].tok \notin burned

\* C6: there is at most one non-revoked session for each (user, user-agent)
\* pair, the absent user-agent being a device descriptor like any other.
C6_OneActiveSessionPerDevice ==
    \A s1, s2 \in sessions :
        ( /\ s1.is_revoked = "No"
          /\ s2.is_revoked = "No"
          /\ s1.user_id = s2.user_id
          /\ s1.user_agent = s2.user_agent )
        => s1 = s2

\* C7: in a serial run, a login that succeeds returns an access token and a
\* refresh token and leaves exactly one active session for its (user, device),
\* whatever the user-agent, the absent one included.
C7_LoginLeavesOneSessionForDevice ==
    \A r \in Reqs :
        Succeeded(r, "login")
        => /\ req[r].accessToken.key = AccessSecret
           /\ req[r].refreshToken.key = RefreshSecret
           /\ Cardinality({s \in ActiveSessions(req[r].payload.unique_id) :
                              s.user_agent = req[r].ua}) = 1

\* C8: between the delete and the insert of a login or of a rotation no other
\* request runs a query on user_sessions.
C8_DeleteInsertIsAtomic ==
    [][ \A r, q \in Reqs :
          ( /\ r # q
            /\ req[r].pc \in {"login_insert", "refresh_insert"} )
          => ~QueriesSessions(q)
      ]_vars

\* C9: in a serial run, a refresh(T) that directly follows a successful
\* logout(T) does not return a token pair.
C9_RefreshAfterLogoutFails ==
    \A r \in Reqs :
        ( /\ Returned(r, "refresh")
          /\ last.op = "logout"
          /\ last.res = "ok"
          /\ last.tok = req[r].tok )
        => req[r].res # "ok"

\* C10: the update of a successful logout changes the matched session row, by
\* marking it revoked, and nothing else in user_sessions; every refresh token
\* that another active session matched is still refreshable afterwards.
C10_LogoutTouchesOneSession ==
    [][ \A r \in Reqs :
          (req[r].pc = "logout_update" /\ req'[r].pc = "done")
          => \E m \in req[r].matched :
                /\ m \in sessions
                /\ sessions' = (sessions \ {m}) \cup
                                   {[m EXCEPT !.is_revoked = "Yes"]}
                /\ \A t \in issued :
                      ( /\ JwtVerifies(t, RefreshSecret)
                        /\ Matching(t, ActiveSessions(t.claims.unique_id)
                                          \ {m}) # {} )
                      => Refreshable(t)'
      ]_vars

\* A logout has succeeded while another device of the same user holds an active
\* session guarded by a different refresh token.
C10_Witness ==
    \E r \in Reqs :
        /\ Succeeded(r, "logout")
        /\ \E m \in req[r].matched, s \in ActiveSessions(req[r].payload.unique_id) :
              /\ s.id # m.id
              /\ s.refresh_token_hash # m.refresh_token_hash
              /\ \E t \in issued : t # req[r].tok /\ Refreshable(t)

-----------------------------------------------------------------------------
\* The reset token a resetPassword call presents is current: some user row
\* holds it.
HeldBy(token) == {u \in users : u.reset_token = {token}}

\* C11: in a serial run, a resetPassword call that presents a token older than
\* 15 minutes, a token already redeemed or a token no user holds fails with
\* 'Invalid or expired token' and changes no user row; one that presents a token
\* younger than 15 minutes that a user holds goes on to change that user's
\* password and succeeds, after which no row holds the token.
C11_ResetTokenOnceWithinLifetime ==
    [][ \A r \in Reqs :
          /\ (req[r].pc = "idle" /\ req'[r].op = "resetPassword")
             => \A t \in req'[r].reset :
                  /\ ( \/ NowMs \div 1000 >= t.at + 15 * 60
                       \/ t \in redeemed
                       \/ HeldBy(t) = {} )
                     => /\ req'[r].pc = "done"
                        /\ req'[r].res = "Invalid or expired token"
                        /\ users' = users
                  /\ ( /\ NowMs \div 1000 < t.at + 15 * 60
                       /\ HeldBy(t) # {} )
                     => /\ req'[r].pc = "reset_update"
                        /\ req'[r].found = HeldBy(t)
          /\ (req[r].pc = "reset_update" /\ req'[r].pc # "reset_update")
             => /\ req'[r].pc = "done" /\ req'[r].res = "ok"
                /\ \A t \in req[r].reset : HeldBy(t)' = {}
                /\ \A u \in req[r].found : \E v \in users' :
                      /\ v.id = u.id
                      /\ v.password = {BcryptHash(req[r].password)}
      ]_vars

\* The same token was presented twice in a row: the first call has redeemed it
\* and the second has failed.
C11_Witness ==
    \E r \in Reqs :
        /\ Returned(r, "resetPassword")
        /\ req[r].branch = "redeemed"
        /\ req[r].reset \subseteq redeemed
        /\ req[r].res = "Invalid or expired token"
        /\ \E u \in users : u.password = {BcryptHash("P2")}

\* C12: of the resetPassword calls that present the same token at most one
\* succeeds in changing the password, however the calls overlap.
C12_OneRedemptionPerToken ==
    \A r1, r2 \in Reqs :
        ( /\ r1 # r2
          /\ req[r1].reset = req[r2].reset )
        => ~(Succeeded(r1, "resetPassword") /\ Succeeded(r2, "resetPassword"))

\* C13: a register call for an email that has no row in table employee ends
\* with status 400, and no user row ever carries an email that is not on the
\* roster.
C13_NoEmployeeNoUser ==
    /\ \A r \in Reqs :
          (Returned(r, "register") /\ req[r].email \notin Employees)
          => StatusOf(req[r].res) = 400
    /\ \A r \in Reqs :
          (req[r].op = "register" /\ req[r].email \notin Employees)
          => req[r].pc = "done"
    /\ \A u \in users : u.email \in Employees

\* A register call with a valid password and role has been refused because the
\* roster does not know the email.
C13_Witness ==
    \E r \in Reqs :
        /\ Returned(r, "register")
        /\ req[r].email = "nobody@x.com"
        /\ req[r].password # ""
        /\ req[r].role \in Roles
        /\ req[r].branch = "No employee found with this email"

\* C14: a register call that finds the email already registered ends with
\* status 409, a status different from the 400 of a validation error.
C14_DuplicateEmailIsConflict ==
    \A r \in Reqs :
        ( /\ Returned(r, "register")
          /\ req[r].branch \in {"Email already exists", "ER_DUP_ENTRY"} )
        => StatusOf(req[r].res) = 409

\* C15: a login whose email has no user row, whose user has no password or
\* whose password does not match ends at once with status 401 and the message
\* 'Invalid credentials', the same in the three cases, and its step leaves
\* table user_sessions as it was.
C15_LoginFailuresAlike ==
    [][ \A r \in Reqs :
          ( /\ req'[r].op = "login"
            /\ req[r].op # "login"
            /\ req'[r].branch \in {"no user", "no password", "mismatch"} )
          => /\ req'[r].pc = "done"
             /\ req'[r].res = "Invalid credentials"
             /\ StatusOf(req'[r].res) = 401
             /\ sessions' = sessions
             /\ nextId' = nextId
      ]_vars

\* A login for the user without a password has been refused while another
\* user's session exists.
C15_Witness ==
    \E r \in Reqs :
        /\ Returned(r, "login")
        /\ req[r].branch = "no password"
        /\ req[r].res = "Invalid credentials"
        /\ sessions # {}

\* C19: in every user row the reset token and its expiry are both NULL or both
\* set.
C19_ResetTokenAndExpiryTogether ==
    \A u \in users : (u.reset_token = {}) <=> (u.reset_token_expiry = {})

\* A user registered through the service exists, one user holds a reset token
\* with its expiry, and another has redeemed one.
C19_Witness ==
    /\ \E u \in users : u.email = "b@x.com"
    /\ \E u \in users : u.reset_token # {} /\ u.reset_token_expiry # {}
    /\ \E u \in users :
          /\ u.password = {BcryptHash("P2")}
          /\ u.reset_token = {} /\ u.reset_token_expiry = {}

\* C16: a call one of whose queries rejects ends with status 500, whichever of
\* the six handlers it is.
C16_StoreFailureIsServerError ==
    \A r \in Reqs :
        (req[r].pc = "done" /\ req[r].branch = "query rejected")
        => StatusOf(req[r].res) = 500

\* C17: refresh and logout answer every token signed with the access key with
\* their invalid-token error and leave user_sessions as it was, and the guard of
\* the protected routes refuses every token signed with the refresh key.
C17_KeySeparation ==
    [][ \A r \in Reqs :
          /\ ( /\ req[r].pc = "idle"
               /\ req'[r].op \in {"refresh", "logout"}
               /\ req'[r].tok.key = "JWT_SECRET" )
             => /\ req'[r].pc = "done"
                /\ req'[r].res = IF req'[r].op = "refresh"
                                   THEN "Invalid refresh token"
                                   ELSE "Invalid token"
                /\ sessions' = sessions
          /\ ( /\ req[r].pc = "idle"
               /\ req'[r].op = "protected"
               /\ req'[r].tok.key = "JWT_REFRESH_SECRET" )
             => req'[r].res = "Unauthorized"
      ]_vars

\* An access token that the guard would accept has been presented to refresh
\* and refused, while the session of its refresh token is active.
C17_Witness ==
    \E r \in Reqs :
        /\ Returned(r, "refresh")
        /\ req[r].tok \in AccessTokens
        /\ JwtVerifies(req[r].tok, AccessSecret)
        /\ req[r].res = "Invalid refresh token"
        /\ ActiveSessions(req[r].tok.claims.unique_id) # {}

\* C18: a refresh whose token is no JWT, has expired or is signed with another
\* key ends at once with 'Invalid refresh token': its step runs no query on
\* user_sessions and leaves the table as it was, and nothing of the call is
\* left to run.
C18_BadTokenIsTerminal ==
    [][ \A r \in Reqs :
          ( /\ req[r].pc = "idle"
            /\ req'[r].op = "refresh"
            /\ req'[r].tok # NoToken
            /\ \/ req'[r].tok.key # "JWT_REFRESH_SECRET"
               \/ NowMs \div 1000 >= req'[r].tok.exp )
          => /\ req'[r].pc = "done"
             /\ req'[r].res = "Invalid refresh token"
             /\ req'[r].res # ReuseDetected
             /\ ~QueriesSessions(r)
             /\ sessions' = sessions
             /\ nextId' = nextId
      ]_vars

\* An expired refresh token has been refused while the session it guards is
\* still stored as active.
C18_Witness ==
    \E r \in Reqs :
        /\ Returned(r, "refresh")
        /\ req[r].tok \in issued
        /\ NowMs \div 1000 >= req[r].tok.exp
        /\ req[r].res = "Invalid refresh token"
        /\ Matching(req[r].tok, ActiveSessions(req[r].tok.claims.unique_id)) # {}

\* C20: no step turns a revoked session row back to not revoked, the row that
\* refresh or logout matches is never a revoked one, and a token that a revoked
\* session guards is not matched by refresh or logout.
C20_RevokedIsTerminal ==
    [][ /\ \A s \in sessions, t \in sessions' :
             (s.id = t.id /\ s.is_revoked = "Yes") => t.is_revoked = "Yes"
        /\ \A r \in Reqs :
             ( /\ req[r].pc = "idle"
               /\ req'[r].op \in {"refresh", "logout"}
               /\ req'[r].matched # {} )
             => /\ \A m \in req'[r].matched : m.is_revoked = "No"
                /\ \A s \in sessions :
                      s.is_revoked = "Yes"
                      => ~BcryptCompare(hashToken(req'[r].tok),
                                        s.refresh_token_hash)
      ]_vars

-----------------------------------------------------------------------------
\* C21: no step leaves two user rows with the same email, and a register call
\* returns success only in a step that inserts the one row of its email, which
\* had none before: of the register calls for one email, however they overlap,
\* at most one succeeds.
C21_OneUserPerEmail ==
    [][ /\ \A u1, u2 \in users' : u1.email = u2.email => u1 = u2
        /\ \A r \in Reqs :
             ( /\ req[r].pc = "register_insert"
               /\ req'[r].pc = "done"
               /\ req'[r].res = "ok" )
             => /\ UsersByEmail(req[r].email) = {}
                /\ Cardinality({u \in users' : u.email = req[r].email}) = 1
        /\ \A r1, r2 \in Reqs :
             ( /\ r1 # r2
               /\ req'[r1].email = req'[r2].email
               /\ req'[r1].pc = "done" /\ req'[r1].op = "register"
               /\ req'[r2].pc = "done" /\ req'[r2].op = "register" )
             => ~(req'[r1].res = "ok" /\ req'[r2].res = "ok")
      ]_vars

\* Two register calls for one email have both passed the duplicate check; one
\* has inserted the row and the other has been refused by the unique key.
C21_Witness ==
    \E r1, r2 \in Reqs :
        /\ Succeeded(r1, "register")
        /\ Returned(r2, "register")
        /\ req[r2].email = req[r1].email
        /\ req[r2].branch = "ER_DUP_ENTRY"
        /\ Cardinality(UsersByEmail(req[r1].email)) = 1

\* C22: a requestReset call returns the success response with a new token
\* whether or not a user row has the email, and when none has it the call
\* changes no user row.
C22_RequestResetForUnknownEmail ==
    [][ \A r \in Reqs :
          (req[r].pc = "idle" /\ req'[r].op = "requestReset")
          => /\ req'[r].pc = "done"
             /\ req'[r].res = "ok"
             /\ StatusOf(req'[r].res) = 201
             /\ req'[r].reset # {}
             /\ req'[r].reset \cap resets = {}
             /\ UsersByEmail(req'[r].email) = {} => users' = users
      ]_vars

\* requestReset has answered with a token for an email that no user row has,
\* while the rows of the registered users hold no reset token.
C22_Witness ==
    \E r \in Reqs :
        /\ Succeeded(r, "requestReset")
        /\ req[r].email = "nobody@x.com"
        /\ req[r].reset # {}
        /\ users # {}
        /\ \A u \in users : u.reset_token = {}

\* C23: the process runs only with both signing secrets set, and no request is
\* in service while one of them is missing.
C23_BothSecretsCheckedAtStartup ==
    /\ proc.status = "running" => {AccessSecret, RefreshSecret} \subseteq proc.env
    /\ \A r \in Reqs :
          req[r].pc # "idle" => {AccessSecret, RefreshSecret} \subseteq proc.env

\* C24: a logout whose token verifies and matches no active session of its
\* subject ends with 'Invalid token' in a step that leaves user_sessions as it
\* was; in a serial run this is what a logout(T) that directly follows a
\* successful logout(T) does.
C24_LogoutWithoutMatchChangesNothing ==
    [][ \A r \in Reqs :
          /\ ( /\ req[r].pc = "idle"
               /\ req'[r].op = "logout"
               /\ JwtVerifies(req'[r].tok, RefreshSecret)
               /\ Matching(req'[r].tok,
                           ActiveSessions(req'[r].tok.claims.unique_id)) = {} )
             => /\ req'[r].pc = "done"
                /\ req'[r].res = "Invalid token"
                /\ sessions' = sessions
          /\ ( /\ req[r].pc = "idle"
               /\ req'[r].op = "logout"
               /\ last.op = "logout"
               /\ last.res = "ok"
               /\ last.tok = req'[r].tok )
             => /\ req'[r].pc = "done"
                /\ req'[r].res = "Invalid token"
                /\ sessions' = sessions
      ]_vars

\* C25: in a serial run a rotation changes user_sessions in two steps: the
\* first removes the matched session and nothing else, the second adds one new
\* session and nothing else.  The new session is of the same user, carries the
\* matched session's user-agent and address, expires 7 days from now, is not
\* revoked and holds the fingerprint of the refresh token the call returns;
\* both returned tokens carry the claims of the presented token.
C25_RotationReplacesMatchedSession ==
    [][ \A r \in Reqs :
          /\ (req[r].pc = "refresh_delete" /\ req'[r].pc # "refresh_delete")
             => /\ Cardinality(req[r].matched) = 1
                /\ req[r].matched \subseteq sessions
                /\ sessions' = sessions \ req[r].matched
          /\ (req[r].pc = "refresh_insert" /\ req'[r].pc # "refresh_insert")
             => /\ req'[r].pc = "done" /\ req'[r].res = "ok"
                /\ req'[r].refreshToken.claims = req[r].tok.claims
                /\ req'[r].accessToken.claims = req[r].tok.claims
                /\ req'[r].refreshToken.key = "JWT_REFRESH_SECRET"
                /\ req'[r].accessToken.key = "JWT_SECRET"
                /\ \E new \in sessions' : \E m \in req[r].matched :
                      /\ new \notin sessions
                      /\ \A s \in sessions : s.id # new.id
                      /\ sessions' = sessions \cup {new}
                      /\ new.user_id = m.user_id
                      /\ new.user_agent = m.user_agent
                      /\ new.ip_address = m.ip_address
                      /\ new.expires_at = NowMs + 7 * 24 * 60 * 60 * 1000
                      /\ new.is_revoked = "No"
                      /\ BcryptCompare(hashToken(req'[r].refreshToken),
                                       new.refresh_token_hash)
      ]_vars

\* A rotation has succeeded for a session with a user-agent while another
\* device of the same user holds a session guarded by a different token.
C25_Witness ==
    \E r \in Reqs :
        /\ Succeeded(r, "refresh")
        /\ \E m \in req[r].matched : m.user_agent # NULL
        /\ \E s \in ActiveSessions(req[r].payload.unique_id) :
              /\ s.user_agent = NULL
              /\ ~BcryptCompare(hashToken(req[r].refreshToken),
                                s.refresh_token_hash)
              /\ ~BcryptCompare(hashToken(req[r].tok), s.refresh_token_hash)

\* C26: no rotation inserts its new session after a reuse purge of its user
\* that came after the rotation matched its session: a rotation that is in
\* flight when the purge runs leaves no session behind.
C26_NoSessionSurvivesPurge ==
    [][ \A r \in Reqs :
          (req[r].pc = "refresh_insert" /\ req'[r].pc = "done")
          => \A m \in req[r].matched : \A p \in purged :
                p.user_id = m.user_id => m.id >= p.below
      ]_vars

\* C27: no two active sessions are guarded by the same refresh token, and a
\* token handed out matches at most one active session.
C27_OneSessionPerToken ==
    /\ \A s1, s2 \in sessions :
          ( /\ s1.is_revoked = "No"
            /\ s2.is_revoked = "No"
            /\ s1.refresh_token_hash = s2.refresh_token_hash )
          => s1 = s2
    /\ \A t \in issued :
          Cardinality(Matching(t, ActiveSessions(t.claims.unique_id))) <= 1

\* C28: the reuse purge removes the sessions of the token's subject and leaves
\* every other session row as it was; every refresh token of another user that
\* could be refreshed before the purge can be refreshed after it.
C28_PurgeSparesOtherUsers ==
    [][ \A r \in Reqs :
          (req[r].pc = "refresh_purge" /\ req'[r].pc = "done")
          => /\ sessions' =
                   {s \in sessions : s.user_id # req[r].payload.unique_id}
             /\ \A t \in issued :
                   ( /\ t.claims.unique_id # req[r].payload.unique_id
                     /\ Refreshable(t) )
                   => Refreshable(t)'
      ]_vars

\* Reuse detection has fired for one user and removed a revoked session of
\* theirs, while another user holds an active session whose token can be
\* refreshed.
C28_Witness ==
    \E r \in Reqs :
        /\ Returned(r, "refresh")
        /\ req[r].res = ReuseDetected
        /\ req[r].tok \in issued
        /\ SessionsOf(req[r].payload.unique_id) = {}
        /\ \E t \in issued :
              /\ t.claims.unique_id # req[r].payload.unique_id
              /\ Refreshable(t)

\* C29: the update of a successful resetPassword changes, in the row of its
\* user, the password and the two reset-token columns and nothing else in the
\* store: user_sessions is as it was, every refresh token that could be
\* refreshed before can be refreshed after, and the credential checks of login
\* now pass for the new password and for no other.
C29_ResetKeepsSessions ==
    [][ \A r \in Reqs :
          (req[r].pc = "reset_update" /\ req'[r].pc = "done")
          => /\ sessions' = sessions
             /\ nextId' = nextId
             /\ \A t \in issued : Refreshable(t) => Refreshable(t)'
             /\ \A u \in req[r].found :
                   \E old \in users, new \in users' :
                      /\ old.id = u.id /\ new.id = u.id
                      /\ users' \ {new} = users \ {old}
                      /\ new = [old EXCEPT !.password = new.password,
                                           !.reset_token = {},
                                           !.reset_token_expiry = {}]
                      /\ \A p \in Passwords :
                            CredentialsOk({new}, p) <=> p = req[r].password
                      /\ \A h \in old.password :
                            h.bcrypt # req[r].password
                            => ~CredentialsOk({new}, h.bcrypt)
      ]_vars

\* A password reset has succeeded for a user who holds an active session whose
\* refresh token can still be refreshed; the old password no longer passes.
C29_Witness ==
    \E r \in Reqs :
        /\ Succeeded(r, "resetPassword")
        /\ \E u \in req[r].found :
              /\ ActiveSessions(u.unique_id) # {}
              /\ \E t \in issued :
                    t.claims.unique_id = u.unique_id /\ Refreshable(t)
              /\ u.password = {BcryptHash("P1")}
              /\ ~CredentialsOk(UsersByEmail(u.email), "P1")
              /\ CredentialsOk(UsersByEmail(u.email), "P2")

\* C30: the expiry of a refresh token handed out is never later than the
\* expires_at of a session that stores its fingerprint, so a token that
\* verifies matches no session whose expires_at has passed, and the session a
\* refresh matches has its expires_at still ahead.
C30_TokenExpiresBeforeSession ==
    [][ /\ \A t \in issued', s \in sessions' :
             BcryptCompare(hashToken(t), s.refresh_token_hash)
             => /\ t.exp * 1000 <= s.expires_at
                /\ JwtVerifies(t, RefreshSecret)' => s.expires_at > NowMs'
        /\ \A r \in Reqs :
             ( /\ req[r].pc = "idle"
               /\ req'[r].op = "refresh"
               /\ req'[r].matched # {} )
             => \A m \in req'[r].matched : m.expires_at > NowMs
      ]_vars

\* A session whose expires_at has passed is still stored as active, and a
\* refresh with the token that guards it has been refused.
C30_Witness ==
    \E r \in Reqs :
        /\ Returned(r, "refresh")
        /\ req[r].res # "ok"
        /\ \E s \in ActiveSessions(req[r].tok.claims.unique_id) :
              /\ BcryptCompare(hashToken(req[r].tok), s.refresh_token_hash)
              /\ s.expires_at <= NowMs

====
